---- MODULE Spec2Model ----
(***************************************************************************)
(* The Postfix installer plugin (certbot_postfix/installer.py) as a state  *)
(* machine: one installer instance, the Postfix configuration it edits     *)
(* through postconf, the files it writes and the checkpoint collaborator   *)
(* it hands its notes to.                                                  *)
(*                                                                         *)
(* Strings are TLA+ strings; Python's None is the value None below.  The   *)
(* postconf.ConfigMain object (certbot_postfix/postconf.py) is modelled by *)
(* its two fields: db, the values of main.cf, and updated, the staged      *)
(* name/value pairs.                                                       *)
(***************************************************************************)
EXTENDS Integers, Sequences, FiniteSets, TLC

(* ------------------------------ bounds -------------------------------- *)

\* deploy_cert and save calls made on the installer instance
MaxCalls == 3

(* --------------------------- module constants -------------------------- *)

None == "<None>"

POLICY_FILENAME == "starttls_everywhere_policy"
CA_FILENAME == "starttls_everywhere_CAfile"

acceptable_security_levels == <<"may", "encrypt">>
acceptable_cipher_levels == <<"medium", "high">>

\* A dict entry: isTuple is isinstance(value, tuple); a plain string value is
\* held as a one-element sequence.
Var(param, isTuple, value) == [param |-> param, isTuple |-> isTuple, value |-> value]

default_server_vars ==
    << Var("smtpd_tls_mandatory_protocols", FALSE, <<"!SSLv2, !SSLv3">>),
       Var("smtpd_tls_protocols", FALSE, <<"!SSLv2, !SSLv3">>),
       Var("smtpd_tls_security_level", TRUE, acceptable_security_levels),
       Var("smtpd_tls_ciphers", TRUE, acceptable_cipher_levels),
       Var("smtpd_tls_eecdh_grade", FALSE, <<"strong">>) >>

default_client_vars ==
    << Var("smtp_tls_security_level", TRUE, acceptable_security_levels),
       Var("smtp_tls_ciphers", TRUE, acceptable_cipher_levels) >>

\* Every parameter the installer reads or writes by name.
Params ==
    { default_server_vars[i].param : i \in DOMAIN default_server_vars }
    \cup { default_client_vars[i].param : i \in DOMAIN default_client_vars }
    \cup { "smtpd_tls_cert_file", "smtpd_tls_key_file",
           "smtp_tls_policy_maps", "smtp_tls_CAfile", "config_directory" }

Range(s) == { s[i] : i \in DOMAIN s }

(* ------------------------------ strings -------------------------------- *)

UpperCase == "ABCDEFGHIJKLMNOPQRSTUVWXYZ"
LowerCase == "abcdefghijklmnopqrstuvwxyz"

\* str.lower() on one character
LowerChar(c) ==
    IF \E i \in 1..Len(UpperCase) : SubSeq(UpperCase, i, i) = c
    THEN LET i == CHOOSE j \in 1..Len(UpperCase) : SubSeq(UpperCase, j, j) = c
         IN  SubSeq(LowerCase, i, i)
    ELSE c

RECURSIVE lower(_)
lower(s) ==
    IF Len(s) = 0 THEN ""
    ELSE LowerChar(SubSeq(s, 1, 1)) \o lower(SubSeq(s, 2, Len(s)))

\* sep.join(lines)
RECURSIVE join(_, _)
join(sep, lines) ==
    IF Len(lines) = 0 THEN ""
    ELSE IF Len(lines) = 1 THEN lines[1]
    ELSE lines[1] \o sep \o join(sep, Tail(lines))

\* os.path.join(a, b) for a relative b
path_join(a, b) == a \o "/" \o b

(* ------------------------- the loaded TLS policy ----------------------- *)

\* starttls_policy.Config as the installer uses it: acceptable_mxs, in the
\* order items() yields it, and the resolved minimum TLS version of every MX
\* domain (get_tls_policy(mx_domain).min_tls_version).
Mxs(address_domain, accept_mx_domains) ==
    [address_domain |-> address_domain, accept_mx_domains |-> accept_mx_domains]

MxDomains == {"m1.io", "m2.io", "m3.io"}

PolicyPlain ==
    [acceptable_mxs |-> << Mxs("a.io", <<"m1.io">>) >>,
     tls |-> [m \in MxDomains |-> "TLSv1.2"]]

PolicyMulti ==
    [acceptable_mxs |-> << Mxs("a.io", <<"m1.io", "m2.io", "m3.io">>),
                           Mxs("b.io", <<"m3.io">>) >>,
     tls |-> ("m1.io" :> "TLSv1" @@ "m2.io" :> "TLSv1.2" @@ "m3.io" :> "TLSv1.3")]

PolicyCase ==
    [acceptable_mxs |-> << Mxs("a.io", <<"m2.io", "m1.io">>),
                           Mxs("b.io", <<"m1.io">>),
                           Mxs("c.io", <<"m3.io">>) >>,
     tls |-> ("m1.io" :> "TLSV1.1" @@ "m2.io" :> "" @@ "m3.io" :> "tlsv1")]

PolicyNoMx ==
    [acceptable_mxs |-> << Mxs("a.io", <<"m1.io">>),
                           Mxs("b.io", << >>),
                           Mxs("c.io", <<"m2.io">>) >>,
     tls |-> ("m1.io" :> "TLSv1.1" @@ "m2.io" :> "TLSv1.2" @@ "m3.io" :> "TLSv1")]

PolicyEmpty ==
    [acceptable_mxs |-> << >>,
     tls |-> [m \in MxDomains |-> "TLSv1"]]

Policies == {PolicyPlain, PolicyMulti, PolicyCase, PolicyNoMx, PolicyEmpty}

\* The minimum TLS versions the policies above resolve to.
MinTlsVersions ==
    UNION { { pol.tls[m] : m \in DOMAIN pol.tls } : pol \in Policies }

(* --------------------------- the policy compiler ----------------------- *)

\* min_tls_version.lower(), computed once for each version string
lowered == [ v \in MinTlsVersions |-> lower(v) ]

\* mx_domain = mx_list[0] (Python indexes from 0, TLA+ from 1)
effective_mx_last(mx_list) == mx_list[Len(mx_list)]
effective_mx(mx_list) == mx_list[1]

\* The line built for one address domain from the minimum TLS version of its
\* MX domain.
entry(address_domain, min_tls_version) ==
    LET v == lowered[min_tls_version]
    IN  address_domain \o " encrypt" \o
        ( IF v = "tlsv1" THEN " protocols=!SSLv2:!SSLv3"
          ELSE IF v = "tlsv1.1" THEN " protocols=!SSLv2:!SSLv3:!TLSv1"
          ELSE IF v = "tlsv1.2" THEN " protocols=!SSLv2:!SSLv3:!TLSv1:!TLSv1.1"
          ELSE "" )

known_version(min_tls_version) ==
    lowered[min_tls_version] \in {"tlsv1", "tlsv1.1", "tlsv1.2"}

\* The first entry of the loop that raises, 0 when none does.  mx_list[0]
\* raises IndexError on an empty list; the logger.warn calls raise nothing.
raises_at_diagnostic(pol) ==
    LET es == pol.acceptable_mxs
        bad == { i \in DOMAIN es :
                   \/ Len(es[i].accept_mx_domains) # 1
                   \/ ~known_version(pol.tls[es[i].accept_mx_domains[1]]) }
    IN  IF bad = {} THEN 0 ELSE CHOOSE i \in bad : \A j \in bad : i <= j
raises_at(pol) ==
    LET es  == pol.acceptable_mxs
        bad == { i \in DOMAIN es : Len(es[i].accept_mx_domains) = 0 }
    IN  IF bad = {} THEN 0 ELSE CHOOSE i \in bad : \A j \in bad : i <= j

\* The entries one run of the loop appends to policy_lines: one per address
\* domain, up to the entry that raises.
loop_lines(pol) ==
    LET es == pol.acceptable_mxs
        n  == IF raises_at(pol) = 0 THEN Len(es) ELSE raises_at(pol) - 1
    IN  [ i \in 1..n |->
            entry(es[i].address_domain,
                  pol.tls[effective_mx(es[i].accept_mx_domains)]) ]

\* "\n".join(self.policy_lines) + "\n"
table_text(lines) == join("\n", lines) \o "\n"

(* ------------------------------- files --------------------------------- *)

NoFile == [kind |-> "none"]
JsonFile(pol) == [kind |-> "json", policy |-> pol]
TextFile(text) == [kind |-> "text", text |-> text]

\* What "cat /usr/share/ca-certificates/mozilla/*.crt" prints.
CA_BUNDLE == "-----BEGIN CERTIFICATE-----\n"

\* open(path, "w") followed by f.write(text), by how far it gets:
\*   "ok"         the text is written and the file closed;
\*   "open"       open raises: the file is as it was;
\*   "truncated"  open has truncated the file and nothing of the text
\*                reaches it before the write raises;
\*   "partial"    open has truncated the file and the write raises with the
\*                first half of the text in it.
IoOutcomes == {"ok", "open", "truncated", "partial"}

write_file(old, text, io) ==
    IF io = "ok" THEN TextFile(text)
    ELSE IF io = "open" THEN old
    ELSE IF io = "truncated" THEN TextFile("")
    ELSE TextFile(SubSeq(text, 1, Len(text) \div 2))

\* set_domainwise_tls_policies: the loop, then the write of the whole line
\* buffer to self.policy_file.  Returns the new line buffer, the new content
\* of the file at self.policy_file and how the call ended.
set_domainwise_tls_policies(pol, lines, old, io) ==
    LET lines2 == lines \o loop_lines(pol)
    IN  IF raises_at(pol) # 0
        THEN [policy_lines |-> lines2, file |-> old, result |-> "IndexError"]
        ELSE [policy_lines |-> lines2,
              file |-> write_file(old, table_text(lines2), io),
              result |-> IF io = "ok" THEN "ok" ELSE "IOError"]

(* ------------------ postconf.ConfigMain (get, set, flush) --------------- *)

\* get(name): the staged value if one is pending, else the value of main.cf.
postconf_get(upd, d, name) ==
    IF name \in DOMAIN upd THEN upd[name] ELSE d[name]

\* set(name, value): nothing when the value is already the effective one,
\* else the pair is staged.  ConfigMain is built from the postconf executable
\* and the configuration directory alone, so it adds nothing to the
\* installer's save_notes.
postconf_set(upd, d, name, value) ==
    IF postconf_get(upd, d, name) = value THEN upd
    ELSE (name :> value) @@ upd

\* flush() when the edit succeeds: every staged pair is written to main.cf.
postconf_flushed(upd, d) ==
    [ name \in DOMAIN d |-> IF name \in DOMAIN upd THEN upd[name] ELSE d[name] ]

(* ------------------------------ _set_vars ------------------------------ *)

\* One (param, value) pair of the loop body.
set_var_always_first(upd, d, v) ==
    postconf_set(upd, d, v.param, v.value[1])
set_var_last_acceptable(upd, d, v) ==
    IF v.isTuple
    THEN IF postconf_get(upd, d, v.param) \notin Range(v.value)
         THEN postconf_set(upd, d, v.param, v.value[Len(v.value)])
         ELSE upd
    ELSE postconf_set(upd, d, v.param, v.value[1])
set_var(upd, d, v) ==
    IF v.isTuple
    THEN IF postconf_get(upd, d, v.param) \notin Range(v.value)
         THEN postconf_set(upd, d, v.param, v.value[1])
         ELSE upd
    ELSE postconf_set(upd, d, v.param, v.value[1])

RECURSIVE _set_vars(_, _, _)
_set_vars(upd, d, var_dict) ==
    IF Len(var_dict) = 0 THEN upd
    ELSE _set_vars(set_var(upd, d, Head(var_dict)), d, Tail(var_dict))

(* --------------------------- postconf queries -------------------------- *)

\* str.count(c), from position i on
RECURSIVE count_from(_, _, _)
count_from(s, c, i) ==
    IF i > Len(s) THEN 0
    ELSE (IF SubSeq(s, i, i) = c THEN 1 ELSE 0) + count_from(s, c, i + 1)
count(s, c) == count_from(s, c, 1)

\* str.startswith
startswith(s, prefix) ==
    Len(s) >= Len(prefix) /\ SubSeq(s, 1, Len(prefix)) = prefix

\* the characters str.strip() removes
Whitespace == {" ", "\t", "\n", "\r", "\f"}

\* str.strip()
strip(s) ==
    LET kept == { i \in 1..Len(s) : SubSeq(s, i, i) \notin Whitespace }
    IN  IF kept = {} THEN ""
        ELSE LET first == CHOOSE i \in kept : \A j \in kept : i <= j
                 final == CHOOSE i \in kept : \A j \in kept : j <= i
             IN  SubSeq(s, first, final)

\* str.split(sep) for a separator of one character, from position i on with
\* the piece begun at position start
RECURSIVE split_from(_, _, _, _)
split_from(s, sep, start, i) ==
    IF i > Len(s) THEN << SubSeq(s, start, Len(s)) >>
    ELSE IF SubSeq(s, i, i) = sep
         THEN << SubSeq(s, start, i - 1) >> \o split_from(s, sep, i + 1, i + 1)
         ELSE split_from(s, sep, start, i + 1)
split(s, sep) == split_from(s, sep, 1, 1)

Digits == "0" :> 0 @@ "1" :> 1 @@ "2" :> 2 @@ "3" :> 3 @@ "4" :> 4
          @@ "5" :> 5 @@ "6" :> 6 @@ "7" :> 7 @@ "8" :> 8 @@ "9" :> 9

\* the value of the decimal digits s[1..n]
RECURSIVE digits_value(_, _)
digits_value(s, n) ==
    IF n = 0 THEN 0
    ELSE 10 * digits_value(s, n - 1) + Digits[SubSeq(s, n, n)]

\* int(s): surrounding whitespace and one sign are accepted, then decimal
\* digits only; anything else is a ValueError.
int(s) ==
    LET t      == strip(s)
        signed == Len(t) > 0 /\ SubSeq(t, 1, 1) \in {"+", "-"}
        body   == IF signed THEN SubSeq(t, 2, Len(t)) ELSE t
        valid  == /\ Len(body) > 0
                  /\ \A i \in 1..Len(body) : SubSeq(body, i, i) \in DOMAIN Digits
    IN  IF ~valid THEN [error |-> "ValueError", value |-> 0]
        ELSE [error |-> "none",
              value |-> IF signed /\ SubSeq(t, 1, 1) = "-"
                        THEN 0 - digits_value(body, Len(body))
                        ELSE digits_value(body, Len(body))]

\* What a run of postconf answers: its exit status and its standard output.
Answer(exit_ok, output) == [exit_ok |-> exit_ok, output |-> output]

\* What a function returns or raises: error is "none" or the exception's
\* class, value is what is returned.
Returned(value) == [error |-> "none", value |-> value]
Raised(error) == [error |-> error, value |-> None]

_parse_postconf_output(output, name) ==
    LET expected_prefix == name \o " ="
    IN  IF count(output, "\n") # 1 \/ ~startswith(output, expected_prefix)
        THEN Raised("PluginError")
        ELSE LET value == strip(SubSeq(output, Len(expected_prefix) + 1, Len(output)))
             IN  Returned(IF value # "" THEN value ELSE None)

\* _run_postconf_command: util.check_output raises CalledProcessError when
\* postconf exits with a nonzero status.
_get_value_from_postconf(answer, name) ==
    IF ~answer.exit_ok THEN Raised("CalledProcessError")
    ELSE _parse_postconf_output(answer.output, name)

_get_config_default(answer, name) ==
    LET got == _get_value_from_postconf(answer, name)
    IN  IF got.error \in {"CalledProcessError", "PluginError"}
        THEN Raised("PluginError")
        ELSE got

\* tuple(int(i) for i in mail_version.split('.'))
_get_version(answer) ==
    LET mail_version == _get_config_default(answer, "mail_version")
    IN  IF mail_version.error # "none" THEN mail_version
        ELSE IF mail_version.value = None THEN Raised("AttributeError")
        ELSE LET pieces == split(mail_version.value, ".")
                 ints   == [ i \in 1..Len(pieces) |-> int(pieces[i]) ]
             IN  IF \E i \in 1..Len(pieces) : ints[i].error # "none"
                 THEN Raised("ValueError")
                 ELSE Returned([ i \in 1..Len(pieces) |-> ints[i].value ])

(* ------------------------------- state --------------------------------- *)

VARIABLES
    conf,                 \* the command-line options: conf("policy-file")
    config_dir,           \* self.config_dir
    policy,               \* self.policy, once loaded
    policy_lines,         \* self.policy_lines
    policy_file,          \* self.policy_file
    postfix_policy_file,  \* self.postfix_policy_file
    ca_file,              \* self.ca_file
    save_notes,           \* self.save_notes
    db,                   \* self.postconf: the values of main.cf
    updated,              \* self.postconf: the staged name/value pairs
    fs,                   \* the files, by path
    locked,               \* the configuration directory's lock is held
    checkpoint,           \* the notes handed to add_to_checkpoint, in order
    finalized,            \* the titles handed to finalize_checkpoint
    phase,                \* "new", "prepared", "failed" (prepare raised) or
                          \* "exited"
    last,                 \* the last call made and how it ended
    calls,                \* deploy_cert and save calls so far
    issued,               \* what the last prepare or restart ran, in order
    peer,                 \* a second plugin process on the same directory:
                          \* "absent", "new", "prepared", "failed", "exited"
    fn_in,                \* the arguments of a function applied on its own
    fn_out                \* and what it returned or raised

vars == << conf, config_dir, policy, policy_lines, policy_file,
           postfix_policy_file, ca_file, save_notes, db, updated, fs, locked,
           checkpoint, finalized, phase, last, calls, issued, peer,
           fn_in, fn_out >>

(* ---------------------------- the environment -------------------------- *)

\* postconf's config_directory
CONFIG_DIRECTORY == "/etc/postfix"

\* the value of the policy-file option: its default
PolicyFileOptions == {"config.json"}

Paths == PolicyFileOptions
         \cup {path_join(CONFIG_DIRECTORY, POLICY_FILENAME),
               path_join(CONFIG_DIRECTORY, CA_FILENAME)}

\* main.cf before the plugin runs: nothing set; a hardened configuration;
\* a weak one.
ConfigFresh ==
    [ name \in Params |-> IF name = "config_directory" THEN CONFIG_DIRECTORY ELSE None ]

ConfigHardened ==
    [ ConfigFresh EXCEPT !["smtpd_tls_security_level"] = "encrypt",
                         !["smtp_tls_security_level"] = "encrypt",
                         !["smtpd_tls_ciphers"] = "high",
                         !["smtp_tls_ciphers"] = "medium",
                         !["smtpd_tls_mandatory_protocols"] = "!SSLv2, !SSLv3",
                         !["smtpd_tls_protocols"] = "!SSLv2, !SSLv3",
                         !["smtpd_tls_eecdh_grade"] = "strong" ]

ConfigWeak ==
    [ ConfigFresh EXCEPT !["smtpd_tls_security_level"] = "may",
                         !["smtp_tls_security_level"] = "none",
                         !["smtpd_tls_ciphers"] = "low",
                         !["smtp_tls_ciphers"] = "high",
                         !["smtpd_tls_protocols"] = "!SSLv2" ]

InitialConfigs == {ConfigFresh, ConfigHardened, ConfigWeak}

\* deploy_cert's arguments
Domains == {"a.io", "b.io"}
CertPaths == { [fullchain_path |-> "/c/fullchain.pem", key_path |-> "/c/privkey.pem"],
               [fullchain_path |-> "/d/fullchain.pem", key_path |-> "/d/privkey.pem"] }

\* save's title argument
Titles == {None, "renewal"}

\* What "postconf -d mail_version" answers: a version of one, two or three
\* components, or an answer _get_version cannot use.
Majors == {"1", "2", "3"}
Minors == {"0", "5", "6", "7", "10", "11"}
Patches == {"0", "3"}
VersionTexts ==
    Majors
    \cup { a \o "." \o b : a \in Majors, b \in Minors }
    \cup { a \o "." \o b \o "." \o c : a \in Majors, b \in Minors, c \in Patches }
UnusableAnswers ==
    { Answer(FALSE, ""),
      Answer(TRUE, "mail_version =\n"),
      Answer(TRUE, "mail_version = \n"),
      Answer(TRUE, "mail_version = 2.x\n"),
      Answer(TRUE, "mail_version = 2..6\n"),
      Answer(TRUE, "mail_version = 3.0.0-RC1\n"),
      Answer(TRUE, "mail_version = 2.6.0"),
      Answer(TRUE, "mail_version = 2.6.0\nmail_name = Postfix\n"),
      Answer(TRUE, "mail_name = Postfix\n"),
      Answer(TRUE, "") }
VersionAnswers ==
    { Answer(TRUE, "mail_version = " \o v \o "\n") : v \in VersionTexts }
    \cup UnusableAnswers

\* _get_version on each of these answers
got_version == [ answer \in VersionAnswers |-> _get_version(answer) ]

\* the answers prepare is run against
MailVersionAnswers ==
    { Answer(TRUE, "mail_version = " \o v \o "\n") : v \in {"2.5.0", "2.6.0", "3.0.0", "2"} }
    \cup { Answer(FALSE, ""), Answer(TRUE, "mail_version =\n"),
           Answer(TRUE, "mail_version = 2.x\n") }

\* A call and how it ended; domain and cert are deploy_cert's arguments.
DeployCall(domain, cert, result) ==
    [op |-> "deploy_cert", domain |-> domain, cert |-> cert, result |-> result]
Call(op, result) ==
    [op |-> op, domain |-> None,
     cert |-> [fullchain_path |-> None, key_path |-> None], result |-> result]
Ended(op, result) == last.op = op /\ last.result = result

(* -------------------------------- Init --------------------------------- *)

\* __init__, on a system whose policy source document holds one of Policies.
InitInstaller ==
    /\ conf \in [policy_file : PolicyFileOptions]
    /\ config_dir = None
    /\ policy = None
    /\ policy_lines = << >>
    /\ policy_file = None
    /\ postfix_policy_file = None
    /\ ca_file = None
    /\ save_notes = << >>
    /\ db \in InitialConfigs
    /\ updated = << >>
    /\ \E pol \in Policies :
         fs = [ p \in Paths |-> IF p = conf.policy_file THEN JsonFile(pol) ELSE NoFile ]
    /\ locked = FALSE
    /\ checkpoint = << >>
    /\ finalized = << >>
    /\ phase = "new"
    /\ last = Call("__init__", "ok")
    /\ calls = 0
    /\ issued = << >>

\* What fn_out holds before a function is applied, and after.
NotApplied == [applied |-> FALSE]
Applied(fn, ret) == [applied |-> TRUE, fn |-> fn, ret |-> ret]

\* no function is applied on its own
NoApplication == fn_in = None /\ fn_out = NotApplied

\* One plugin process, no other on the directory.
Init == InitInstaller /\ peer = "absent" /\ NoApplication

(* ------------------------------- prepare ------------------------------- *)

\* Python's a < b on tuples of integers
RECURSIVE tuple_lt(_, _)
tuple_lt(a, b) ==
    IF Len(b) = 0 THEN FALSE
    ELSE IF Len(a) = 0 THEN TRUE
    ELSE IF Head(a) # Head(b) THEN Head(a) < Head(b)
    ELSE tuple_lt(Tail(a), Tail(b))

\* _check_version raises when this holds
version_too_old_of_three(version) == tuple_lt(version, <<2, 6, 0>>)
version_too_old(version) == tuple_lt(version, <<2, 6>>)

\* What _check_version raises ("none": nothing), from what _get_version
\* returned or raised.
_check_version(version) ==
    IF version.error # "none" THEN version.error
    ELSE IF version_too_old(version.value) THEN "NotSupportedError"
    ELSE "none"

\* The steps of prepare that can raise, in the order prepare takes them, and
\* what each raises ("none": nothing) from what its collaborators answer: the
\* executables are found, the policy source document loads, what _get_version
\* gives, "postfix check" succeeds, the directory lock is acquired.
prepare_checks_version_last(exe_ok, loads, version, check_ok, lock_ok) ==
    << [step |-> "_verify_executable_is_available",
        raises |-> IF exe_ok THEN "none" ELSE "NoInstallationError"],
       [step |-> "load_from_json_file",
        raises |-> IF loads THEN "none" ELSE "LoadError"],
       [step |-> "config_test",
        raises |-> IF check_ok THEN "none" ELSE "MisconfigurationError"],
       [step |-> "_lock_config_dir",
        raises |-> IF lock_ok THEN "none" ELSE "PluginError"],
       [step |-> "_check_version", raises |-> _check_version(version)] >>

prepare_checks_lock_ignored(exe_ok, loads, version, check_ok, lock_ok) ==
    << [step |-> "_verify_executable_is_available",
        raises |-> IF exe_ok THEN "none" ELSE "NoInstallationError"],
       [step |-> "load_from_json_file",
        raises |-> IF loads THEN "none" ELSE "LoadError"],
       [step |-> "_check_version", raises |-> _check_version(version)],
       [step |-> "config_test",
        raises |-> IF check_ok THEN "none" ELSE "MisconfigurationError"],
       [step |-> "_lock_config_dir", raises |-> "none"] >>

prepare_checks(exe_ok, loads, version, check_ok, lock_ok) ==
    << [step |-> "_verify_executable_is_available",
        raises |-> IF exe_ok THEN "none" ELSE "NoInstallationError"],
       [step |-> "load_from_json_file",
        raises |-> IF loads THEN "none" ELSE "LoadError"],
       [step |-> "_check_version", raises |-> _check_version(version)],
       [step |-> "config_test",
        raises |-> IF check_ok THEN "none" ELSE "MisconfigurationError"],
       [step |-> "_lock_config_dir",
        raises |-> IF lock_ok THEN "none" ELSE "PluginError"] >>

\* The steps taken of a sequence of checks: up to the first that raises.
steps_taken(checks) ==
    LET raising == { i \in 1..Len(checks) : checks[i].raises # "none" }
    IN  IF raising = {} THEN checks
        ELSE SubSeq(checks, 1, CHOOSE i \in raising : \A j \in raising : i <= j)

\* How prepare ends.
prepare_result(exe_ok, loads, version, check_ok, lock_ok) ==
    LET taken == steps_taken(prepare_checks(exe_ok, loads, version, check_ok, lock_ok))
    IN  IF taken[Len(taken)].raises = "none" THEN "ok"
        ELSE taken[Len(taken)].raises

\* A step or subcommand that was run, and whether it succeeded.
Ran(step, ok) == [step |-> step, ok |-> ok]

\* The steps prepare takes.
prepare_issued(exe_ok, loads, version, check_ok, lock_ok) ==
    LET taken == steps_taken(prepare_checks(exe_ok, loads, version, check_ok, lock_ok))
    IN  [ i \in 1..Len(taken) |-> Ran(taken[i].step, taken[i].raises = "none") ]

prepare(exe_ok, version, check_ok, lock_ok) ==
    LET dir    == db["config_directory"]
        loads  == fs[conf.policy_file].kind = "json"
        result == prepare_result(exe_ok, loads, version, check_ok, lock_ok)
        past_exe == result # "NoInstallationError"
    IN  /\ phase = "new"
        /\ peer = "prepared" => ~lock_ok
        /\ issued' = prepare_issued(exe_ok, loads, version, check_ok, lock_ok)
        /\ config_dir' = IF past_exe THEN dir ELSE config_dir
        /\ policy_file' = IF past_exe THEN conf.policy_file ELSE policy_file
        /\ policy' = IF ~past_exe THEN policy
                     ELSE IF loads THEN fs[conf.policy_file].policy
                     ELSE PolicyEmpty
        /\ locked' = (result = "ok")
        /\ postfix_policy_file' =
             IF result = "ok" THEN path_join(dir, POLICY_FILENAME)
             ELSE postfix_policy_file
        /\ ca_file' = IF result = "ok" THEN path_join(dir, CA_FILENAME) ELSE ca_file
        /\ phase' = IF result = "ok" THEN "prepared" ELSE "failed"
        /\ last' = Call("prepare", result)
        /\ UNCHANGED << conf, policy_lines, save_notes, db, updated, fs,
                        checkpoint, finalized, calls, peer, fn_in, fn_out >>

(* ----------------------------- deploy_cert ----------------------------- *)

\* "Configuring TLS for {0}".format(domain)
deploy_note_unformatted(domain) == "Configuring TLS for {0}"
deploy_note(domain) == "Configuring TLS for " \o domain

\* The staged pairs once deploy_cert has reached the policy compiler.
staged_before_compile_with_reference(upd, d, cert) ==
    LET u1 == postconf_set(upd, d, "smtpd_tls_cert_file", cert.fullchain_path)
        u2 == postconf_set(u1, d, "smtpd_tls_key_file", cert.key_path)
        u3 == _set_vars(u2, d, default_server_vars)
        u4 == _set_vars(u3, d, default_client_vars)
    IN  postconf_set(u4, d, "smtp_tls_policy_maps",
                     "texthash:" \o postfix_policy_file)

staged_before_compile(upd, d, cert) ==
    LET u1 == postconf_set(upd, d, "smtpd_tls_cert_file", cert.fullchain_path)
        u2 == postconf_set(u1, d, "smtpd_tls_key_file", cert.key_path)
        u3 == _set_vars(u2, d, default_server_vars)
    IN  _set_vars(u3, d, default_client_vars)

\* The staged pairs once the compiler has returned.
staged_after_compile(upd, d, table_path, ca_path) ==
    LET u5 == postconf_set(upd, d, "smtp_tls_policy_maps", "texthash:" \o table_path)
    IN  postconf_set(u5, d, "smtp_tls_CAfile", ca_path)

deploy_cert(domain, cert, io) ==
    LET u4  == staged_before_compile(updated, db, cert)
        c   == set_domainwise_tls_policies(policy, policy_lines,
                                           fs[policy_file], io)
        fs1 == [fs EXCEPT ![policy_file] = c.file]
    IN  /\ phase = "prepared"
        /\ calls < MaxCalls
        /\ calls' = calls + 1
        /\ save_notes' = Append(save_notes, deploy_note(domain))
        /\ policy_lines' = c.policy_lines
        /\ IF c.result = "ok"
           THEN /\ updated' = staged_after_compile(u4, db, postfix_policy_file, ca_file)
                /\ fs' = [fs1 EXCEPT ![ca_file] = TextFile(CA_BUNDLE)]
           ELSE /\ updated' = u4
                /\ fs' = fs1
        /\ last' = DeployCall(domain, cert, c.result)
        /\ UNCHANGED << conf, config_dir, policy, policy_file,
                        postfix_policy_file, ca_file, db, locked, checkpoint,
                        finalized, phase, issued, peer, fn_in, fn_out >>

(* -------------------------------- save --------------------------------- *)

\* The collaborator call of save that fails, if any.
SaveFailures == {"none", "add_to_checkpoint", "flush", "finalize_checkpoint"}

\* "if title and not temporary"
finalizes(title, temporary) == title \notin {None, ""} /\ ~temporary

\* How save ends: add_to_checkpoint raises, the flush of a non-empty staged
\* set fails, finalize_checkpoint raises, or none of these.
save_result(upd, title, temporary, fails) ==
    IF fails = "add_to_checkpoint" THEN "CheckpointError"
    ELSE IF fails = "flush" /\ DOMAIN upd # {} THEN "CommitError"
    ELSE IF fails = "finalize_checkpoint" /\ finalizes(title, temporary)
         THEN "FinalizeError"
    ELSE "ok"

save_clears_before_flush(title, temporary, fails) ==
    LET result  == save_result(updated, title, temporary, fails)
        handed  == result # "CheckpointError"
        flushed == result \in {"ok", "FinalizeError"}
    IN  /\ phase = "prepared"
        /\ calls < MaxCalls
        /\ calls' = calls + 1
        /\ checkpoint' = IF handed
                         THEN Append(checkpoint, join("\n", save_notes))
                         ELSE checkpoint
        /\ db' = IF flushed THEN postconf_flushed(updated, db) ELSE db
        /\ updated' = IF flushed THEN << >> ELSE updated
        /\ save_notes' = IF handed THEN << >> ELSE save_notes
        /\ finalized' = IF result = "ok" /\ finalizes(title, temporary)
                        THEN Append(finalized, title)
                        ELSE finalized
        /\ last' = Call("save", result)
        /\ UNCHANGED << conf, config_dir, policy, policy_lines, policy_file,
                        postfix_policy_file, ca_file, fs, locked, phase,
                        issued, peer, fn_in, fn_out >>

save(title, temporary, fails) ==
    LET result  == save_result(updated, title, temporary, fails)
        handed  == result # "CheckpointError"
        flushed == result \in {"ok", "FinalizeError"}
    IN  /\ phase = "prepared"
        /\ calls < MaxCalls
        /\ calls' = calls + 1
        /\ checkpoint' = IF handed
                         THEN Append(checkpoint, join("\n", save_notes))
                         ELSE checkpoint
        /\ db' = IF flushed THEN postconf_flushed(updated, db) ELSE db
        /\ updated' = IF flushed THEN << >> ELSE updated
        /\ save_notes' = IF flushed THEN << >> ELSE save_notes
        /\ finalized' = IF result = "ok" /\ finalizes(title, temporary)
                        THEN Append(finalized, title)
                        ELSE finalized
        /\ last' = Call("save", result)
        /\ UNCHANGED << conf, config_dir, policy, policy_lines, policy_file,
                        postfix_policy_file, ca_file, fs, locked, phase,
                        issued, peer, fn_in, fn_out >>

(* ------------------------------- restart ------------------------------- *)

\* The subcommands of the postfix control program that restart may run.
Subcommands == {"status", "reload", "stop", "start"}

\* Whether each subcommand, if run, exits with status zero.
Exits == [Subcommands -> BOOLEAN]

\* _run_postfix_subcommand: the subcommand is run once; util.check_call raises
\* CalledProcessError when it exits with a nonzero status.
_run_postfix_subcommand(exits, subcommand) ==
    [issued |-> << Ran(subcommand, exits[subcommand]) >>,
     raises |-> IF exits[subcommand] THEN "none" ELSE "CalledProcessError"]

_is_postfix_running(exits) ==
    LET run == _run_postfix_subcommand(exits, "status")
    IN  [issued |-> run.issued, value |-> run.raises # "CalledProcessError"]

_reload(exits) ==
    LET run == _run_postfix_subcommand(exits, "reload")
    IN  [issued |-> run.issued,
         raises |-> IF run.raises = "CalledProcessError"
                    THEN "PluginError: Postfix failed to reload its configuration."
                    ELSE "none"]

_start_despite_stop(exits) ==
    LET stop  == _run_postfix_subcommand(exits, "stop")
        start == _run_postfix_subcommand(exits, "start")
    IN  [issued |-> stop.issued \o start.issued,
         raises |-> IF stop.raises = "CalledProcessError"
                    THEN "PluginError: Postfix failed to stop"
                    ELSE IF start.raises = "CalledProcessError"
                         THEN "PluginError: Postfix failed to start"
                         ELSE "none"]

_start(exits) ==
    LET stop  == _run_postfix_subcommand(exits, "stop")
        start == _run_postfix_subcommand(exits, "start")
    IN  IF stop.raises = "CalledProcessError"
        THEN [issued |-> stop.issued,
              raises |-> "PluginError: Postfix failed to stop"]
        ELSE [issued |-> stop.issued \o start.issued,
              raises |-> IF start.raises = "CalledProcessError"
                         THEN "PluginError: Postfix failed to start"
                         ELSE "none"]

\* "if self._is_postfix_running(): self._reload() else: self._start()"
restart_branch_inverted(running, exits) ==
    IF running THEN _start(exits) ELSE _reload(exits)

restart_branch(running, exits) ==
    IF running THEN _reload(exits) ELSE _start(exits)

restart(exits) ==
    LET running == _is_postfix_running(exits)
        branch  == restart_branch(running.value, exits)
    IN  /\ phase = "prepared"
        /\ issued' = running.issued \o branch.issued
        /\ last' = Call("restart", IF branch.raises = "none" THEN "ok"
                                   ELSE branch.raises)
        /\ UNCHANGED << conf, config_dir, policy, policy_lines, policy_file,
                        postfix_policy_file, ca_file, save_notes, db, updated,
                        fs, locked, checkpoint, finalized, phase, calls, peer,
                        fn_in, fn_out >>

(* ------------------------ two plugin processes ------------------------- *)

\* The process exits: lock_dir_until_exit's lock is released.
exit ==
    /\ phase \in {"prepared", "failed"}
    /\ phase' = "exited"
    /\ locked' = FALSE
    /\ last' = Call("exit", "ok")
    /\ UNCHANGED << conf, config_dir, policy, policy_lines, policy_file,
                    postfix_policy_file, ca_file, save_notes, db, updated, fs,
                    checkpoint, finalized, calls, issued, peer, fn_in, fn_out >>

\* prepare in the second process, against the same policy source document and
\* the same directory lock: it cannot acquire the lock while this process
\* holds it.
peer_prepare(exe_ok, version, check_ok, lock_ok) ==
    LET loads  == fs[conf.policy_file].kind = "json"
        result == prepare_result(exe_ok, loads, version, check_ok, lock_ok)
    IN  /\ peer = "new"
        /\ locked => ~lock_ok
        /\ peer' = IF result = "ok" THEN "prepared" ELSE "failed"
        /\ UNCHANGED << conf, config_dir, policy, policy_lines, policy_file,
                        postfix_policy_file, ca_file, save_notes, db, updated,
                        fs, locked, checkpoint, finalized, phase, last, calls,
                        issued, fn_in, fn_out >>

\* The second process exits and releases the lock if it holds it.
peer_exit ==
    /\ peer \in {"prepared", "failed"}
    /\ peer' = "exited"
    /\ UNCHANGED << conf, config_dir, policy, policy_lines, policy_file,
                    postfix_policy_file, ca_file, save_notes, db, updated, fs,
                    locked, checkpoint, finalized, phase, last, calls, issued,
                    fn_in, fn_out >>

(* ---------------------------- specification ---------------------------- *)

Prepare ==
    \E exe_ok \in BOOLEAN, answer \in MailVersionAnswers,
       check_ok \in BOOLEAN, lock_ok \in BOOLEAN :
        prepare(exe_ok, got_version[answer], check_ok, lock_ok)

DeployCert ==
    \E domain \in Domains, cert \in CertPaths, io \in IoOutcomes :
        deploy_cert(domain, cert, io)

Save ==
    \E title \in Titles, temporary \in BOOLEAN, fails \in SaveFailures :
        save(title, temporary, fails)

Next == Prepare \/ DeployCert \/ Save

Spec == Init /\ [][Next]_vars

\* One installer on a fresh main.cf, for the functions applied on their own.
InitOne ==
    /\ InitInstaller
    /\ db = ConfigFresh
    /\ fs[conf.policy_file] = JsonFile(PolicyPlain)
    /\ peer = "absent"
    /\ fn_out = NotApplied

\* The installer's own variables stay as they are.
InstallerUnchanged ==
    UNCHANGED << conf, config_dir, policy, policy_lines, policy_file,
                 postfix_policy_file, ca_file, save_notes, db, updated, fs,
                 locked, checkpoint, finalized, phase, last, calls, issued,
                 peer >>

\* _check_version against each answer of "postconf -d mail_version": what
\* _get_version gives and what _check_version raises.
CheckVersion ==
    /\ ~fn_out.applied
    /\ fn_out' = Applied("_check_version",
                         [version |-> got_version[fn_in],
                          raises |-> _check_version(got_version[fn_in])])
    /\ UNCHANGED fn_in
    /\ InstallerUnchanged

InitVersion == InitOne /\ fn_in \in VersionAnswers

SpecVersion == InitVersion /\ [][CheckVersion]_vars

\* _parse_postconf_output on outputs of every shape, for two parameter names
\* of which one begins the other.
ParseNames == {"foo", "fo"}
ParseHeads == {"foo =", "foo = ", "fo =", "foo=", "bar = ", ""}
ParseTails == {"", "\n", "bar\n", " bar \n", "bar", "\nbar", "bar\nbaz",
               "bar\nbaz = qux\n", "\n\n", "  \n", "= bar\n"}
ParseOutputs == { h \o t : h \in ParseHeads, t \in ParseTails }

ParseOutput ==
    /\ ~fn_out.applied
    /\ fn_out' = Applied("_parse_postconf_output",
                         _parse_postconf_output(fn_in.output, fn_in.name))
    /\ UNCHANGED fn_in
    /\ InstallerUnchanged

InitParse == InitOne /\ fn_in \in [output : ParseOutputs, name : ParseNames]

SpecParse == InitParse /\ [][ParseOutput]_vars

\* Two plugin processes on the same configuration directory.
PeerPrepare ==
    \E exe_ok \in BOOLEAN, answer \in MailVersionAnswers,
       check_ok \in BOOLEAN, lock_ok \in BOOLEAN :
        peer_prepare(exe_ok, got_version[answer], check_ok, lock_ok)

InitLock ==
    /\ InitInstaller
    /\ db = ConfigFresh
    /\ fs[conf.policy_file] = JsonFile(PolicyPlain)
    /\ peer = "new"
    /\ NoApplication

NextLock == Prepare \/ DeployCert \/ Save \/ exit \/ PeerPrepare \/ peer_exit

SpecLock == InitLock /\ [][NextLock]_vars

\* The lifecycle controller: prepare, then restart any number of times.
Restart == \E exits \in Exits : restart(exits)

NextCtl == Prepare \/ Restart

SpecCtl == Init /\ [][NextCtl]_vars

(* ------------------------------- claims -------------------------------- *)

\* The values of smtp_tls_policy_maps that are staged or committed.
PolicyMapsReferences ==
    ( { db["smtp_tls_policy_maps"] }
      \cup { updated[n] : n \in DOMAIN updated \cap {"smtp_tls_policy_maps"} } )
    \ { None }

\* C1: in every reachable state where the policy-table reference
\* smtp_tls_policy_maps = "texthash:<path>" is staged or committed, <path> is
\* the path the policy compiler wrote the compiled table to, and the file
\* there holds the table.
C1_ReferencePointsAtWrittenTable ==
    \A ref \in PolicyMapsReferences :
        /\ ref = "texthash:" \o policy_file
        /\ fs[policy_file].kind = "text"

\* C2: after every compilation that completes, the written file holds exactly
\* one line per address domain of the loaded policy and no line of an earlier
\* compilation.
C2_TableFullyRegenerated ==
    Ended("deploy_cert", "ok") =>
        fs[policy_file] = TextFile(table_text(loop_lines(policy)))

\* C3: a save whose flush fails leaves the staged pairs and the notes as they
\* were; a save whose flush succeeds has handed the joined notes to the
\* checkpoint collaborator and leaves both empty.
C3_SaveAllOrNothing ==
    [][ (last'.op = "save" /\ calls' = calls + 1) =>
          /\ (last'.result = "CommitError") =>
                /\ updated' = updated
                /\ save_notes' = save_notes
          /\ (last'.result \in {"ok", "FinalizeError"}) =>
                /\ checkpoint' = Append(checkpoint, join("\n", save_notes))
                /\ updated' = << >>
                /\ save_notes' = << >> ]_vars

\* C3 witnesses: a save has just failed in the flush with pairs staged and
\* notes pending ...
C3_FailedFlushReached ==
    /\ Ended("save", "CommitError")
    /\ DOMAIN updated # {}
    /\ Len(save_notes) > 0

\* ... and a save retried after such a failure has committed them.
C3_RetryCommitted ==
    /\ Ended("save", "ok")
    /\ calls = 3
    /\ Len(checkpoint) = 2
    /\ checkpoint[1] = checkpoint[2]
    /\ checkpoint[1] # ""
    /\ db["smtpd_tls_cert_file"] # None
    /\ updated = << >>
    /\ save_notes = << >>

\* C4: whatever a call does to the policy-table file, also a write that fails
\* part-way, the file holds either all of its previous content or all of the
\* newly compiled table.
C4_TableOldOrNew ==
    [][ (phase = "prepared") =>
          fs'[policy_file] \in { fs[policy_file],
                                 TextFile(table_text(policy_lines')) } ]_vars

SecurityLevelParams == {"smtpd_tls_security_level", "smtp_tls_security_level"}

\* C5: once a TLS security-level parameter reads "encrypt", no deploy_cert or
\* save stages or commits "may" for it: it goes on reading "encrypt".
C5_NoDowngrade ==
    [][ \A p \in SecurityLevelParams :
          (postconf_get(updated, db, p) = "encrypt") =>
              /\ postconf_get(updated', db', p) = "encrypt"
              /\ db'[p] # "may"
              /\ (p \in DOMAIN updated') => updated'[p] # "may" ]_vars

\* C5 witness: a deployment on a configuration whose server security level is
\* "encrypt" has staged its other changes and left the level alone.
C5_DeployedOnEncrypt ==
    /\ Ended("deploy_cert", "ok")
    /\ db["smtpd_tls_security_level"] = "encrypt"
    /\ "smtpd_tls_security_level" \notin DOMAIN updated
    /\ "smtpd_tls_cert_file" \in DOMAIN updated

\* A step that is one call of deploy_cert.
DeployStep == last'.op = "deploy_cert" /\ calls' = calls + 1

\* The line the specification gives an address domain whose effective MX
\* domain resolves to min_tls_version (version names without regard to case).
C6_Line(address_domain, min_tls_version) ==
    LET v == lowered[min_tls_version]
    IN  CASE v = "tlsv1"   -> address_domain \o " encrypt protocols=!SSLv2:!SSLv3"
          [] v = "tlsv1.1" -> address_domain \o " encrypt protocols=!SSLv2:!SSLv3:!TLSv1"
          [] v = "tlsv1.2" -> address_domain \o " encrypt protocols=!SSLv2:!SSLv3:!TLSv1:!TLSv1.1"
          [] OTHER         -> address_domain \o " encrypt"

\* One specified line per address domain of the policy, in its order.
C6_Lines(pol) ==
    [ i \in DOMAIN pol.acceptable_mxs |->
        C6_Line(pol.acceptable_mxs[i].address_domain,
                pol.tls[pol.acceptable_mxs[i].accept_mx_domains[1]]) ]

\* C6: the text a completed compilation has written is the specified line of
\* every address domain, joined by newlines, with one trailing newline.
C6_WrittenTextIsTheLines ==
    Ended("deploy_cert", "ok") =>
        /\ fs[policy_file].kind = "text"
        /\ fs[policy_file].text = join("\n", C6_Lines(policy)) \o "\n"

\* No address domain of the policy has an empty accept_mx_domains list.
EveryDomainHasMx(pol) ==
    \A i \in DOMAIN pol.acceptable_mxs :
        Len(pol.acceptable_mxs[i].accept_mx_domains) >= 1

MultiMx(pol) ==
    { i \in DOMAIN pol.acceptable_mxs :
        Len(pol.acceptable_mxs[i].accept_mx_domains) > 1 }

\* C7: a compilation raises nothing in its loop, emits exactly one line per
\* address domain, and the line of an address domain with several
\* accept-mx-domains is the one its first MX domain's policy gives, whatever
\* the policies of the others.
C7_MultiMxUsesFirst ==
    [][ (DeployStep /\ EveryDomainHasMx(policy)) =>
          /\ last'.result # "IndexError"
          /\ Len(policy_lines') = Len(policy_lines) + Len(policy.acceptable_mxs)
          /\ \A i \in MultiMx(policy) :
                policy_lines'[Len(policy_lines) + i] =
                    C6_Line(policy.acceptable_mxs[i].address_domain,
                            policy.tls[policy.acceptable_mxs[i].accept_mx_domains[1]])
       ]_vars

\* C7 witness: a policy whose first address domain lists three MX domains of
\* three different minimum versions has been compiled.
C7_MultiMxCompiled ==
    /\ Ended("deploy_cert", "ok")
    /\ policy = PolicyMulti
    /\ Len(policy_lines) = 2

\* The address domains that draw a diagnostic: several accept-mx-domains, or
\* an unrecognized minimum TLS version.
Diagnosed(pol) ==
    MultiMx(pol) \cup
    { i \in DOMAIN pol.acceptable_mxs :
        /\ Len(pol.acceptable_mxs[i].accept_mx_domains) >= 1
        /\ lowered[pol.tls[pol.acceptable_mxs[i].accept_mx_domains[1]]]
             \notin {"tlsv1", "tlsv1.1", "tlsv1.2"} }

\* C8: diagnostics abort nothing: when a policy has address domains that draw
\* one, compilation still appends the line of every address domain, the ones
\* after them included, and writes the file unless the write itself fails.
C8_DiagnosticsNonFatal ==
    [][ (DeployStep /\ EveryDomainHasMx(policy) /\ Diagnosed(policy) # {}) =>
          /\ last'.result \in {"ok", "IOError"}
          /\ SubSeq(policy_lines', Len(policy_lines) + 1, Len(policy_lines'))
               = C6_Lines(policy)
          /\ (last'.result = "ok") =>
                fs'[policy_file] = TextFile(table_text(policy_lines')) ]_vars

\* C8 witness: a policy whose first address domain draws both diagnostics has
\* been compiled and the lines of the two address domains after it written.
C8_CompiledPastDiagnostics ==
    /\ Ended("deploy_cert", "ok")
    /\ policy = PolicyCase
    /\ 1 \in Diagnosed(policy)
    /\ policy_lines = << "a.io encrypt",
                         "b.io encrypt protocols=!SSLv2:!SSLv3:!TLSv1",
                         "c.io encrypt protocols=!SSLv2:!SSLv3" >>
    /\ fs[policy_file] = TextFile(table_text(policy_lines))

\* The multi-value constraints of the default tables.
Constraints ==
    { v \in Range(default_server_vars) \cup Range(default_client_vars) : v.isTuple }

\* C9: for every multi-value constraint, a deployment stages nothing for the
\* parameter when the value read is one of the acceptable values, and
\* otherwise stages the first acceptable value.
C9_ConstrainedProposal ==
    [][ DeployStep =>
          \A c \in Constraints :
             IF postconf_get(updated, db, c.param) \in Range(c.value)
             THEN /\ (c.param \in DOMAIN updated') <=> (c.param \in DOMAIN updated)
                  /\ (c.param \in DOMAIN updated) =>
                        updated'[c.param] = updated[c.param]
             ELSE /\ c.param \in DOMAIN updated'
                  /\ updated'[c.param] = c.value[1] ]_vars

\* C9 witness: a deployment has found one cipher grade unacceptable and
\* staged "medium" for it, and another acceptable and staged nothing for it.
C9_ConstrainedBothWays ==
    /\ last.op = "deploy_cert"
    /\ db["smtpd_tls_ciphers"] = "low"
    /\ "smtpd_tls_ciphers" \in DOMAIN updated
    /\ updated["smtpd_tls_ciphers"] = "medium"
    /\ db["smtp_tls_ciphers"] = "high"
    /\ "smtp_tls_ciphers" \notin DOMAIN updated

\* Every value a deployment of cert would propose is already the effective one.
AllEffective(cert) ==
    LET read(name) == postconf_get(updated, db, name)
    IN  /\ read("smtpd_tls_cert_file") = cert.fullchain_path
        /\ read("smtpd_tls_key_file") = cert.key_path
        /\ \A v \in Range(default_server_vars) \cup Range(default_client_vars) :
              IF v.isTuple THEN read(v.param) \in Range(v.value)
              ELSE read(v.param) = v.value[1]
        /\ read("smtp_tls_policy_maps") = "texthash:" \o postfix_policy_file
        /\ read("smtp_tls_CAfile") = ca_file

\* Proposing a value that is already the effective one stages nothing.
ProposeEffectiveIsNoOp ==
    \A name \in DOMAIN db :
        postconf_set(updated, db, name, postconf_get(updated, db, name)) = updated

IssuedSteps(ran) == [ i \in 1..Len(ran) |-> ran[i].step ]

\* A step that ends a restart call (a restart that repeats the last call with
\* the same outcome changes nothing).
RestartStep == last'.op = "restart"

\* C11: restart issues exactly one status probe, first, and then exactly one
\* branch: reload and neither stop nor start when the probe succeeded, stop
\* and then possibly start and never reload when it failed.  A failed probe
\* alone never makes restart fail, and no subcommand is run twice.
C11_RestartProbesThenOneBranch ==
    [][ RestartStep =>
          LET ran == issued'
              steps == IssuedSteps(ran)
          IN  /\ Len(ran) >= 2
              /\ ran[1].step = "status"
              /\ \A i, j \in 1..Len(ran) : ran[i].step = ran[j].step => i = j
              /\ ran[1].ok => steps = << "status", "reload" >>
              /\ ~ran[1].ok => steps \in { << "status", "stop" >>,
                                           << "status", "stop", "start" >> }
              /\ (\A i \in 2..Len(ran) : ran[i].ok) <=> last'.result = "ok"
      ]_vars

\* restart found Postfix not running, stopped and started it, and succeeded.
C11_StartedWhenNotRunning ==
    /\ Ended("restart", "ok")
    /\ IssuedSteps(issued) = << "status", "stop", "start" >>
    /\ ~issued[1].ok

\* C12: when restart takes the start branch, stop is run first and start is
\* run only after stop exited with status zero; a failed stop ends the call
\* with the error naming the stop step and start is never run; a failed start
\* ends it with the error naming the start step.
C12_StartOnlyAfterStop ==
    [][ RestartStep /\ ~issued'[1].ok =>
          LET ran == issued'
          IN  /\ ran[2].step = "stop"
              /\ ~ran[2].ok => /\ Len(ran) = 2
                               /\ last'.result = "PluginError: Postfix failed to stop"
              /\ ran[2].ok => /\ Len(ran) = 3
                              /\ ran[3].step = "start"
                              /\ ~ran[3].ok =>
                                   last'.result = "PluginError: Postfix failed to start"
                              /\ ran[3].ok => last'.result = "ok"
      ]_vars

\* restart found Postfix not running and the stop subcommand failed.
C12_StopFailed ==
    /\ Ended("restart", "PluginError: Postfix failed to stop")
    /\ IssuedSteps(issued) = << "status", "stop" >>
    /\ ~issued[2].ok

\* The steps named in `order` are run in that order by the last call: one of
\* them is run only after those before it in `order` have been run, and no
\* step is run after one that failed.
RunInOrder(order) ==
    LET steps == IssuedSteps(issued)
        at(name) == CHOOSE i \in 1..Len(steps) : steps[i] = name
        run == { name \in Range(order) : name \in Range(steps) }
    IN  /\ \A k \in 1..Len(order) :
              order[k] \in run =>
                  \A j \in 1..(k - 1) :
                      order[j] \in run /\ at(order[j]) < at(order[k])
        /\ \A i \in 1..(Len(issued) - 1) : issued[i].ok

\* C13 (as amended): prepare runs the version check, then the configuration
\* check, then the lock acquisition; a failure of an earlier step prevents
\* every later step.
C13_VersionThenConfigThenLock ==
    last.op = "prepare" =>
        RunInOrder(<< "_check_version", "config_test", "_lock_config_dir" >>)

\* C13 (as stated): prepare runs the configuration check, then the lock
\* acquisition, then the version check; a failure of an earlier step prevents
\* every later step.
C13_ConfigThenLockThenVersion ==
    last.op = "prepare" =>
        RunInOrder(<< "config_test", "_lock_config_dir", "_check_version" >>)

\* prepare passed the version check and failed at the configuration check,
\* before the lock.
C13_ConfigCheckFailedAfterVersion ==
    /\ Ended("prepare", "MisconfigurationError")
    /\ \E i \in 1..Len(issued) : issued[i] = Ran("_check_version", TRUE)
    /\ issued[Len(issued)] = Ran("config_test", FALSE)

\* a is lexicographically smaller than b: they agree up to a position where a
\* ends or holds the smaller number.
LexSmaller(a, b) ==
    \E k \in 1..Len(b) :
        /\ \A j \in 1..(k - 1) : j <= Len(a) /\ a[j] = b[j]
        /\ k > Len(a) \/ a[k] < b[k]

\* _check_version has been applied and _get_version gave a version tuple.
VersionChecked ==
    /\ fn_out.applied
    /\ fn_out.fn = "_check_version"
    /\ fn_out.ret.version.error = "none"

\* C14: for every version tuple of non-negative integers the version check
\* raises the unsupported-version error exactly when the tuple is
\* lexicographically smaller than (2, 6): (2, 5, 0) is rejected, (2, 6, 0) and
\* (3, 0, 0) are accepted.
C14_VersionGate ==
    VersionChecked =>
        LET version == fn_out.ret.version.value
        IN  /\ \A i \in 1..Len(version) : version[i] >= 0
            /\ fn_out.ret.raises = "NotSupportedError"
                   <=> LexSmaller(version, << 2, 6 >>)
            /\ version = << 2, 5, 0 >> => fn_out.ret.raises = "NotSupportedError"
            /\ version \in { << 2, 6, 0 >>, << 3, 0, 0 >> } => fn_out.ret.raises = "none"

\* version 2.6 itself, of two components, was checked and accepted
C14_Accepted26 ==
    /\ VersionChecked
    /\ fn_out.ret.version.value = << 2, 6 >>
    /\ fn_out.ret.raises = "none"

\* C15: _get_version reports every unusable version value as the query error
\* (PluginError) and as no other error: a failed query, unparsable output, a
\* component that is no number, an absent value.
C15_UnusableVersionIsPluginError ==
    fn_out.applied /\ fn_out.fn = "_check_version" =>
        fn_out.ret.version.error \in {"none", "PluginError"}

\* The output is one line "name =<value>" ended by its only newline.
OneTerminatedLine(output, name) ==
    /\ startswith(output, name \o " =")
    /\ count(output, "\n") = 1
    /\ SubSeq(output, Len(output), Len(output)) = "\n"

\* C16: _parse_postconf_output accepts an output only if it is exactly one
\* newline-terminated line "n = <value>"; it then returns the value trimmed,
\* or None when the trimmed value is empty; every other output raises the
\* format error (PluginError).
C16_ParseContract ==
    fn_out.applied /\ fn_out.fn = "_parse_postconf_output" =>
        LET output == fn_in.output
            name   == fn_in.name
            value  == strip(SubSeq(output, Len(name) + 3, Len(output) - 1))
        IN  IF fn_out.ret.error = "none"
            THEN /\ OneTerminatedLine(output, name)
                 /\ fn_out.ret.value = IF value = "" THEN None ELSE value
            ELSE fn_out.ret.error = "PluginError"

\* C17: the installer does not get past prepare without the lock on the
\* configuration directory: a prepare whose lock acquisition failed raises;
\* of two processes on the same directory at most one has completed prepare;
\* and a parameter is staged, a file written or main.cf flushed only by a
\* process that holds the lock.
C17_NoProgressWithoutLock ==
    [][ /\ ( /\ last'.op = "prepare"
             /\ Len(issued') > 0
             /\ issued'[Len(issued')] = Ran("_lock_config_dir", FALSE) )
           => phase' = "failed" /\ ~locked' /\ last'.result = "PluginError"
        /\ ~(phase' = "prepared" /\ peer' = "prepared")
        /\ phase' = "prepared" => locked'
        /\ (updated' # updated \/ fs' # fs \/ db' # db)
           => locked /\ peer # "prepared"
      ]_vars

\* The second process holds the lock and this one's prepare failed to lock.
C17_LockedOut ==
    /\ peer = "prepared"
    /\ Ended("prepare", "PluginError")
    /\ issued[Len(issued)] = Ran("_lock_config_dir", FALSE)
    /\ phase = "failed"

\* The value staged for smtp_tls_policy_maps, None when none is.
StagedReference(upd) ==
    IF "smtp_tls_policy_maps" \in DOMAIN upd THEN upd["smtp_tls_policy_maps"]
    ELSE None

\* C18: a deploy_cert call stages smtp_tls_policy_maps only after its own
\* compilation and file write have completed without error: a call whose
\* compilation or write fails stages no reference, and a call that stages one
\* has written the whole compiled table.
C18_ReferenceStagedAfterWrite ==
    [][ DeployStep =>
          /\ last'.result # "ok" =>
                StagedReference(updated') = StagedReference(updated)
          /\ StagedReference(updated') # StagedReference(updated) =>
                /\ last'.result = "ok"
                /\ fs'[policy_file] = TextFile(table_text(policy_lines'))
      ]_vars

\* A deploy_cert whose table write failed has staged the certificate and no
\* reference.
C18_WriteFailedNothingReferenced ==
    /\ Ended("deploy_cert", "IOError")
    /\ "smtpd_tls_cert_file" \in DOMAIN updated
    /\ StagedReference(updated) = None
    /\ db["smtp_tls_policy_maps"] = None

\* C19: the policy source document, the file the policy-file option names, is
\* only read: no call changes its content.
C19_PolicySourceNeverWritten ==
    [][ fs'[conf.policy_file] = fs[conf.policy_file] ]_vars

\* C20: a compilation appends exactly one line for every address domain of
\* the policy whatever the length of its accept_mx_domains, the empty list
\* included, and no entry makes it raise.
C20_OneLinePerEntry ==
    [][ DeployStep =>
          /\ last'.result # "IndexError"
          /\ Len(policy_lines') = Len(policy_lines) + Len(policy.acceptable_mxs)
      ]_vars

====
